---- MODULE Spec2Model ----
(***************************************************************************)
(* RustScan front end (src/main.rs): the NOFILE adapter                    *)
(* (adjust_ulimit_size, infer_batch_size) and main's flow around the       *)
(* scanner: address check, batch inference, scan, grouping of the open     *)
(* sockets per IP, the no-open-ports diagnostic and the script/result loop.*)
(*                                                                         *)
(* u64 values are kept at full width as four 16-bit limbs, least           *)
(* significant first, so that `ulimit + 2` and `ulimit - 100` overflow     *)
(* exactly where the 64-bit code does.                                     *)
(***************************************************************************)
EXTENDS Integers, Naturals, Sequences, FiniteSets, TLC

VARIABLES
    overflow_checks,  \* build profile: TRUE = overflow-checks on (dev/test), FALSE = release
    os_permits,       \* environment: the kernel lets this process raise its hard NOFILE limit
    opts,             \* Opts after merge: batch_size, ulimit, greppable, scripts, command
    nofile,           \* the process's RLIMIT_NOFILE: [soft, hard]
    ips,              \* parse_addresses(&opts)
    scripts_to_run,   \* the ScriptFiles init_scripts returned: their call_format
    pc,               \* position in main
    ulimit,           \* value returned by adjust_ulimit_size
    batch_size,       \* value returned by infer_batch_size (u16)
    faults,           \* arithmetic events of infer_batch_size
    scanner,          \* <<>> before Scanner::new, then <<batch size it was built with>>
    scan_result,      \* block_on(scanner.run()): Vec<SocketAddr>
    ports_per_ip,     \* HashMap<IpAddr, Vec<u16>>
    diag_i,           \* index of `for ip in ips` (lines 95-107)
    visited,          \* keys of ports_per_ip the loop of lines 110-158 is done with
    cur_ip,           \* <<key>> while the loop body runs the scripts of that key
    script_i,         \* index in scripts_to_run of the script being run (line 124)
    script_calls,     \* arguments of every Script::build call
    out,              \* everything printed, in order
    exit_code         \* -1 while running

vars == <<overflow_checks, os_permits, opts, nofile, ips, scripts_to_run, pc, ulimit,
          batch_size, faults, scanner, scan_result, ports_per_ip, diag_i, visited,
          cur_ip, script_i, script_calls, out, exit_code>>

-----------------------------------------------------------------------------
(* Bounds of the model                                                     *)

Spread == 2
MaxIps == 2
MaxOpen == 2

-----------------------------------------------------------------------------
(* Program constants                                                       *)

DEFAULT_FILE_DESCRIPTORS_LIMIT == 8000
AVERAGE_BATCH_SIZE == 3000
HEADROOM == 100
HINT_MARGIN == 2

-----------------------------------------------------------------------------
(* Fixed-width integers                                                    *)

LimbBase == 2^16
U16Max == 2^16 - 1

\* a value below 2^31 as u64
U64(n) == <<n % LimbBase, (n \div LimbBase) % LimbBase, 0, 0>>

U64Max == <<U16Max, U16Max, U16Max, U16Max>>

RECURSIVE LtFrom(_, _, _)
LtFrom(a, b, i) ==
    IF i = 0 THEN FALSE
    ELSE IF a[i] < b[i] THEN TRUE
    ELSE IF a[i] > b[i] THEN FALSE
    ELSE LtFrom(a, b, i - 1)

U64Lt(a, b) == LtFrom(a, b, 4)
U64Le(a, b) == ~U64Lt(b, a)

\* a + b on 64 bits: the wrapped sum and whether it overflowed
U64Add(a, b) ==
    LET s1 == a[1] + b[1]
        s2 == a[2] + b[2] + (s1 \div LimbBase)
        s3 == a[3] + b[3] + (s2 \div LimbBase)
        s4 == a[4] + b[4] + (s3 \div LimbBase)
    IN  [val |-> <<s1 % LimbBase, s2 % LimbBase, s3 % LimbBase, s4 % LimbBase>>,
         overflow |-> s4 >= LimbBase]

\* a - b on 64 bits: the wrapped difference and whether it underflowed
U64Sub(a, b) ==
    LET d1 == a[1] - b[1]
        b1 == IF d1 < 0 THEN 1 ELSE 0
        d2 == a[2] - b[2] - b1
        b2 == IF d2 < 0 THEN 1 ELSE 0
        d3 == a[3] - b[3] - b2
        b3 == IF d3 < 0 THEN 1 ELSE 0
        d4 == a[4] - b[4] - b3
    IN  [val |-> <<d1 % LimbBase, d2 % LimbBase, d3 % LimbBase, d4 % LimbBase>>,
         overflow |-> d4 < 0]

\* a / 2
U64Div2(a) ==
    <<(a[1] \div 2) + (a[2] % 2) * (LimbBase \div 2),
      (a[2] \div 2) + (a[3] % 2) * (LimbBase \div 2),
      (a[3] \div 2) + (a[4] % 2) * (LimbBase \div 2),
      a[4] \div 2>>

\* u64 -> u16 by TryInto: <<v>> when it fits, <<>> (Err) otherwise
TryIntoU16(a) == IF a[2] = 0 /\ a[3] = 0 /\ a[4] = 0 THEN <<a[1]>> ELSE <<>>

-----------------------------------------------------------------------------
(* Output                                                                  *)

None == <<>>
Some(x) == <<x>>

Msg(stream, text, ip, num, ports) ==
    [stream |-> stream, text |-> text, ip |-> ip, num |-> num, ports |-> ports]

Line(stream, text) == Msg(stream, text, 0, U64(0), <<>>)

-----------------------------------------------------------------------------
(* infer_batch_size, lines 185-220                                         *)

Ret(panicked, value, printed, events) ==
    [panicked |-> panicked, value |-> value, out |-> printed, faults |-> events]

\* `expr` evaluated by a build with or without overflow checks: the build with
\* checks panics on overflow, the other one goes on with the wrapped value
Overflows(r, checks) == r.overflow /\ checks

\* lines 217-219: batch_size.try_into().expect(..)
IntoU16(b64, printed, events) ==
    IF TryIntoU16(b64) = <<>>
    THEN Ret(TRUE, 0, printed, events \cup {"try_into"})
    ELSE Ret(FALSE, TryIntoU16(b64)[1], printed, events)

\* lower_batch_size with `<=` for `<` in the test of line 197
lower_batch_size_le(lim, checks) ==
    LET warn == <<Line("stderr", "file limit is lower than default batch size")>>
    IN  IF U64Le(lim, U64(AVERAGE_BATCH_SIZE))
        THEN IntoU16(U64Div2(lim),
                     warn \o <<Line("stderr", "your file limit is very small"),
                               Line("stdout", "halving batch_size")>>,
                     {})
        ELSE IF U64Lt(U64(DEFAULT_FILE_DESCRIPTORS_LIMIT), lim)
        THEN IntoU16(U64(AVERAGE_BATCH_SIZE),
                     warn \o <<Line("stdout", "batch size is now average batch size")>>,
                     {})
        ELSE LET d == U64Sub(lim, U64(HEADROOM))
                 ev == IF d.overflow THEN {"sub_overflow"} ELSE {}
             IN  IF Overflows(d, checks)
                 THEN Ret(TRUE, 0, warn, ev)
                 ELSE IntoU16(d.val, warn, ev)

\* lines 192-209: the branch `ulimit < batch_size`
lower_batch_size(lim, checks) ==
    LET warn == <<Line("stderr", "file limit is lower than default batch size")>>
    IN  IF U64Lt(lim, U64(AVERAGE_BATCH_SIZE))
        THEN IntoU16(U64Div2(lim),
                     warn \o <<Line("stderr", "your file limit is very small"),
                               Line("stdout", "halving batch_size")>>,
                     {})
        ELSE IF U64Lt(U64(DEFAULT_FILE_DESCRIPTORS_LIMIT), lim)
        THEN IntoU16(U64(AVERAGE_BATCH_SIZE),
                     warn \o <<Line("stdout", "batch size is now average batch size")>>,
                     {})
        ELSE LET d == U64Sub(lim, U64(HEADROOM))
                 ev == IF d.overflow THEN {"sub_overflow"} ELSE {}
             IN  IF Overflows(d, checks)
                 THEN Ret(TRUE, 0, warn, ev)
                 ELSE IntoU16(d.val, warn, ev)

\* line 213: the condition of the `else if`, with the overflow of `ulimit + 2`
hint_condition(o, lim) ==
    LET s == U64Add(lim, U64(HINT_MARGIN))
    IN  [overflow |-> s.overflow,
         holds |-> U64Lt(U64(o.batch_size), s.val) /\ o.ulimit = None]

\* lines 213-215: the branch `ulimit >= batch_size`
keep_batch_size(o, lim, checks) ==
    LET c == hint_condition(o, lim)
        e1 == IF c.overflow THEN {"add_overflow"} ELSE {}
        d == U64Sub(lim, U64(HEADROOM))
        e2 == IF d.overflow THEN {"sub_overflow"} ELSE {}
    IN  IF Overflows(c, checks)
        THEN Ret(TRUE, 0, <<>>, e1)
        ELSE IF c.holds
        THEN IF Overflows(d, checks)
             THEN Ret(TRUE, 0, <<>>, e1 \cup e2)
             ELSE IntoU16(U64(o.batch_size),
                          <<Msg("stdout", "file limit higher than batch size", 0, d.val, <<>>)>>,
                          e1 \cup e2)
        ELSE IntoU16(U64(o.batch_size), <<>>, e1)

infer_batch_size(o, lim, checks) ==
    IF U64Lt(lim, U64(o.batch_size))
    THEN lower_batch_size(lim, checks)
    ELSE keep_batch_size(o, lim, checks)

-----------------------------------------------------------------------------
(* adjust_ulimit_size, lines 168-182                                       *)

\* Resource::NOFILE.set(limit, limit): setrlimit(2) refuses to raise the hard
\* limit of a process that is not permitted to; a refused call changes nothing
set_nofile(cur, limit, permitted) ==
    IF U64Le(limit, cur.hard) \/ permitted
    THEN [ok |-> TRUE, nofile |-> [soft |-> limit, hard |-> limit]]
    ELSE [ok |-> FALSE, nofile |-> cur]

\* adjust_ulimit_size returning the requested limit instead of reading the soft limit back
adjust_ulimit_size_requested(o, cur, permitted) ==
    IF o.ulimit # None
    THEN LET r == set_nofile(cur, o.ulimit[1], permitted)
         IN  [nofile |-> r.nofile,
              out |-> IF r.ok
                      THEN <<Msg("stdout", "automatically increasing ulimit value",
                                 0, o.ulimit[1], <<>>)>>
                      ELSE <<Line("stderr", "failed to set ulimit value")>>,
              soft |-> o.ulimit[1]]
    ELSE [nofile |-> cur, out |-> <<>>, soft |-> cur.soft]

adjust_ulimit_size(o, cur, permitted) ==
    IF o.ulimit # None
    THEN LET r == set_nofile(cur, o.ulimit[1], permitted)
         IN  [nofile |-> r.nofile,
              out |-> IF r.ok
                      THEN <<Msg("stdout", "automatically increasing ulimit value",
                                 0, o.ulimit[1], <<>>)>>
                      ELSE <<Line("stderr", "failed to set ulimit value")>>,
              soft |-> r.nofile.soft]
    ELSE [nofile |-> cur, out |-> <<>>, soft |-> cur.soft]

-----------------------------------------------------------------------------
(* main, lines 35-166                                                      *)

Ports == {22, 80}

\* push_port inserting at the front of the Vec
push_port_front(m, ip, port) ==
    IF ip \in DOMAIN m
    THEN [m EXCEPT ![ip] = <<port>> \o @]
    ELSE m @@ (ip :> <<port>>)

\* lines 89-92: ports_per_ip.entry(ip).or_insert_with(Vec::new).push(port)
push_port(m, ip, port) ==
    IF ip \in DOMAIN m
    THEN [m EXCEPT ![ip] = Append(@, port)]
    ELSE m @@ (ip :> <<port>>)

\* lines 86-93: the loop over scan_result
RECURSIVE group_from(_, _, _)
group_from(sockets, i, m) ==
    IF i > Len(sockets) THEN m
    ELSE group_from(sockets, i + 1, push_port(m, sockets[i][1], sockets[i][2]))

group_by_ip(sockets) == group_from(sockets, 1, <<>>)

\* has_open_ports testing the map instead of the key
has_open_ports_any(m, ip) == DOMAIN m # {}

\* line 96: ports_per_ip.contains_key(&ip)
has_open_ports(m, ip) == ip \in DOMAIN m

\* lines 100-106: the diagnostic of one IP
no_open_ports_message(o, ip) ==
    Msg("stderr", "looks like i didn't find any open ports", ip, U64(o.batch_size), <<>>)

\* line 117
prints_result_line(o) == o.greppable \/ o.scripts = "None"

\* what scanner.run() may return: open sockets of the scanned IPs, each once, any order
Endpoints(addrs) == {<<addrs[i], p>> : i \in 1..Len(addrs), p \in Ports}

ScanResults(addrs) ==
    {sr \in UNION {[1..k -> Endpoints(addrs)] : k \in 0..MaxOpen} :
        \A i, j \in 1..Len(sr) : i # j => sr[i] # sr[j]}

\* lines 46-52
init_scripts_ok ==
    /\ pc = "init_scripts"
    /\ pc' = "parse_addresses"
    /\ UNCHANGED <<overflow_checks, os_permits, opts, nofile, ips, scripts_to_run, ulimit,
                   batch_size, faults, scanner, scan_result, ports_per_ip, diag_i, visited, cur_ip,
                   script_i, script_calls, out, exit_code>>

init_scripts_err ==
    /\ pc = "init_scripts"
    /\ out' = Append(out, Line("stderr", "error initializing scripts"))
    /\ exit_code' = 1
    /\ pc' = "exit"
    /\ UNCHANGED <<overflow_checks, os_permits, opts, nofile, ips, scripts_to_run, ulimit,
                   batch_size, faults, scanner, scan_result, ports_per_ip, diag_i, visited, cur_ip,
                   script_i, script_calls>>

\* lines 56-61
no_ips_resolved ==
    /\ pc = "parse_addresses"
    /\ ips = <<>>
    /\ out' = Append(out, Line("stderr", "no IPs could be resolved, aborting scan"))
    /\ exit_code' = 1
    /\ pc' = "exit"
    /\ UNCHANGED <<overflow_checks, os_permits, opts, nofile, ips, scripts_to_run, ulimit,
                   batch_size, faults, scanner, scan_result, ports_per_ip, diag_i, visited, cur_ip,
                   script_i, script_calls>>

ips_resolved ==
    /\ pc = "parse_addresses"
    /\ ips # <<>>
    /\ pc' = "adjust_ulimit_size"
    /\ UNCHANGED <<overflow_checks, os_permits, opts, nofile, ips, scripts_to_run, ulimit,
                   batch_size, faults, scanner, scan_result, ports_per_ip, diag_i, visited, cur_ip,
                   script_i, script_calls, out, exit_code>>

\* line 64, the argument: adjust_ulimit_size(&opts)
call_adjust_ulimit_size ==
    /\ pc = "adjust_ulimit_size"
    /\ LET r == adjust_ulimit_size(opts, nofile, os_permits)
       IN  /\ nofile' = r.nofile
           /\ out' = out \o r.out
           /\ ulimit' = r.soft
    /\ pc' = "infer_batch_size"
    /\ UNCHANGED <<overflow_checks, os_permits, opts, ips, scripts_to_run, batch_size,
                   faults, scanner, scan_result, ports_per_ip, diag_i, visited, cur_ip,
                   script_i, script_calls, exit_code>>

\* line 64: infer_batch_size(&opts, ..); a panic ends the process with status 101
call_infer_batch_size ==
    /\ pc = "infer_batch_size"
    /\ LET r == infer_batch_size(opts, ulimit, overflow_checks)
       IN  /\ out' = out \o r.out
           /\ faults' = r.faults
           /\ batch_size' = IF r.panicked THEN batch_size ELSE r.value
           /\ pc' = IF r.panicked THEN "panic" ELSE "scanner_new"
           /\ exit_code' = IF r.panicked THEN 101 ELSE exit_code
    /\ UNCHANGED <<overflow_checks, os_permits, opts, nofile, ips, scripts_to_run, ulimit,
                   scanner, scan_result, ports_per_ip, diag_i, visited, cur_ip,
                   script_i, script_calls>>

\* lines 69-78
scanner_new ==
    /\ pc = "scanner_new"
    /\ scanner' = Some(batch_size)
    /\ pc' = "scanner_run"
    /\ UNCHANGED <<overflow_checks, os_permits, opts, nofile, ips, scripts_to_run, ulimit,
                   batch_size, faults, scan_result, ports_per_ip, diag_i, visited, cur_ip,
                   script_i, script_calls, out, exit_code>>

\* line 82
scanner_run ==
    /\ pc = "scanner_run"
    /\ \E sr \in ScanResults(ips) : scan_result' = sr
    /\ pc' = "group"
    /\ UNCHANGED <<overflow_checks, os_permits, opts, nofile, ips, scripts_to_run, ulimit,
                   batch_size, faults, scanner, ports_per_ip, diag_i, visited, cur_ip,
                   script_i, script_calls, out, exit_code>>

\* lines 86-93
group_ports ==
    /\ pc = "group"
    /\ ports_per_ip' = group_by_ip(scan_result)
    /\ diag_i' = 1
    /\ pc' = "diagnose"
    /\ UNCHANGED <<overflow_checks, os_permits, opts, nofile, ips, scripts_to_run, ulimit,
                   batch_size, faults, scanner, scan_result, visited, cur_ip,
                   script_i, script_calls, out,
                   exit_code>>

\* lines 95-107, one iteration
diagnose_ip ==
    /\ pc = "diagnose"
    /\ diag_i <= Len(ips)
    /\ out' = IF has_open_ports(ports_per_ip, ips[diag_i])
              THEN out
              ELSE Append(out, no_open_ports_message(opts, ips[diag_i]))
    /\ diag_i' = diag_i + 1
    /\ pc' = IF diag_i = Len(ips) THEN "scripts" ELSE "diagnose"
    /\ UNCHANGED <<overflow_checks, os_permits, opts, nofile, ips, scripts_to_run, ulimit,
                   batch_size, faults, scanner, scan_result, ports_per_ip, visited, cur_ip,
                   script_i, script_calls, exit_code>>

\* lines 126-137: with extra command-line arguments and a call_format, the
\* arguments are appended to the call_format (after a space) and the call is
\* announced; a string is kept as the sequence of its space-separated words
with_user_args(o, script_f) ==
    IF o.command # <<>> /\ script_f.call_format # None
    THEN [script_f EXCEPT !.call_format = Some(script_f.call_format[1] \o o.command)]
    ELSE script_f

announces_script(o, script_f) == o.command # <<>> /\ script_f.call_format # None

\* lines 124-148: one script on one key, up to script.run(): the announcement
\* and the arguments of Script::build
run_one_script(o, script_f, ip, ports) ==
    [call |-> [ip |-> ip, ports |-> ports,
               call_format |-> with_user_args(o, script_f).call_format],
     out |-> IF announces_script(o, script_f)
             THEN <<Msg("stdout", "running script", ip, U64(0), <<>>)>>
             ELSE <<>>]

\* lines 149-156: what is printed when script.run() has returned
script_outcome(ip, result) ==
    IF result = "Ok"
    THEN Msg("stdout", "script result", ip, U64(0), <<>>)
    ELSE Msg("stderr", "error running script", ip, U64(0), <<>>)

\* lines 110-120, one iteration when line 117 holds: the result line of one
\* key; the HashMap hands out its keys in any order
print_result ==
    /\ pc = "scripts"
    /\ prints_result_line(opts)
    /\ \E ip \in DOMAIN ports_per_ip \ visited :
          /\ out' = Append(out, Msg("stdout", "result", ip, U64(0), ports_per_ip[ip]))
          /\ visited' = visited \cup {ip}
    /\ UNCHANGED <<overflow_checks, os_permits, opts, nofile, ips, scripts_to_run, pc,
                   ulimit, batch_size, faults, scanner, scan_result, ports_per_ip, diag_i,
                   cur_ip, script_i, script_calls, exit_code>>

\* the key and the script the loops of lines 110 and 124 come to next
NextScripts ==
    IF pc = "scripts"
    THEN {[ip |-> ip, n |-> 1] : ip \in DOMAIN ports_per_ip \ visited}
    ELSE {[ip |-> cur_ip[1], n |-> script_i]}

\* lines 110-149: up to the call of script.run(), which starts the external
\* program and waits for it; a key with no script to run is done at once
start_script ==
    /\ pc \in {"scripts", "script_loop"}
    /\ ~prints_result_line(opts)
    /\ \E nx \in NextScripts :
          IF scripts_to_run = <<>>
          THEN /\ visited' = visited \cup {nx.ip}
               /\ UNCHANGED <<pc, cur_ip, script_i, script_calls, out>>
          ELSE LET r == run_one_script(opts, scripts_to_run[nx.n], nx.ip,
                                       ports_per_ip[nx.ip])
               IN  /\ cur_ip' = Some(nx.ip)
                   /\ script_i' = nx.n
                   /\ script_calls' = Append(script_calls, r.call)
                   /\ out' = out \o r.out
                   /\ pc' = "script_running"
                   /\ UNCHANGED visited
    /\ UNCHANGED <<overflow_checks, os_permits, opts, nofile, ips, scripts_to_run, ulimit,
                   batch_size, faults, scanner, scan_result, ports_per_ip, diag_i,
                   exit_code>>

\* lines 149-156: script.run() returns Ok or Err, either is printed, and the
\* loop goes on with the next script or, after the last one, the next key
script_returns ==
    /\ pc = "script_running"
    /\ \E result \in {"Ok", "Err"} :
          out' = Append(out, script_outcome(cur_ip[1], result))
    /\ IF script_i = Len(scripts_to_run)
       THEN /\ visited' = visited \cup {cur_ip[1]}
            /\ cur_ip' = None
            /\ script_i' = 0
            /\ pc' = "scripts"
       ELSE /\ script_i' = script_i + 1
            /\ pc' = "script_loop"
            /\ UNCHANGED <<visited, cur_ip>>
    /\ UNCHANGED <<overflow_checks, os_permits, opts, nofile, ips, scripts_to_run, ulimit,
                   batch_size, faults, scanner, scan_result, ports_per_ip, diag_i,
                   script_calls, exit_code>>

\* lines 160-166, after the last key
finish ==
    /\ pc = "scripts"
    /\ visited = DOMAIN ports_per_ip
    /\ out' = Append(out, Line("stdout", "benchmarks summary"))
    /\ exit_code' = 0
    /\ pc' = "done"
    /\ UNCHANGED <<overflow_checks, os_permits, opts, nofile, ips, scripts_to_run, ulimit,
                   batch_size, faults, scanner, scan_result, ports_per_ip, diag_i, visited,
                   cur_ip, script_i, script_calls>>

-----------------------------------------------------------------------------
(* Inputs                                                                  *)

\* values within Spread of n
Near(n) == (n - Spread)..(n + Spread)

\* batch sizes and limits around every threshold of infer_batch_size
Pivots == {0, HEADROOM, AVERAGE_BATCH_SIZE, 5000, DEFAULT_FILE_DESCRIPTORS_LIMIT, U16Max}

BatchSizes == {b \in UNION {Near(n) : n \in Pivots} : 0 <= b /\ b <= U16Max}

SmallLimits == {U64(n) : n \in {m \in UNION {Near(n) : n \in Pivots \cup {1000000}} : 0 <= m}}

\* the limits within Spread of 2^64 - 1 (RLIM_INFINITY)
HugeLimits == {U64Sub(U64Max, U64(k)).val : k \in 0..Spread}

Limits == SmallLimits \cup HugeLimits

OptsOf(b, u, g, sc, cmd) ==
    [batch_size |-> b, ulimit |-> u, greppable |-> g, scripts |-> sc, command |-> cmd]

Idle ==
    /\ faults = {}
    /\ batch_size = 0
    /\ scanner = None
    /\ scan_result = <<>>
    /\ ports_per_ip = <<>>
    /\ diag_i = 0
    /\ visited = {}
    /\ cur_ip = None
    /\ script_i = 0
    /\ script_calls = <<>>
    /\ out = <<>>
    /\ exit_code = -1

\* infer_batch_size called on its own, as the unit tests call it
InitInfer ==
    /\ overflow_checks \in BOOLEAN
    /\ os_permits = FALSE
    /\ \E b \in BatchSizes, u \in {None, Some(U64(5000))} :
          opts = OptsOf(b, u, FALSE, "None", <<>>)
    /\ ulimit \in Limits
    /\ nofile = [soft |-> ulimit, hard |-> ulimit]
    /\ ips = <<>>
    /\ scripts_to_run = <<>>
    /\ pc = "infer_batch_size"
    /\ Idle

NextInfer == call_infer_batch_size

SpecInfer == InitInfer /\ [][NextInfer]_vars

\* the whole program
MainBatchSizes == {2, 5000, 50000}
ScriptRunBatchSizes == {5000}

\* the NOFILE limits the process starts with, and whether it may raise the hard one
Environments ==
    {[soft |-> U64(50), hard |-> U64(4096), permits |-> FALSE],
     [soft |-> U64(5000), hard |-> U64(5000), permits |-> TRUE]}

RequestedUlimits == {None, Some(U64(1)), Some(U64(1000000))}

\* a ScriptFile, as far as main reads it
ScriptFile(fmt) == [call_format |-> fmt]

UserArgs == <<"-A", "-sV">>
CallFormat == <<"nmap", "-vvv", "-p", "{{port}}", "{{ip}}">>

\* output mode, extra arguments and the scripts init_scripts found
RunConfigs ==
    {[greppable |-> TRUE, scripts |-> "Default", command |-> <<>>,
      found |-> <<ScriptFile(Some(CallFormat))>>],
     [greppable |-> FALSE, scripts |-> "None", command |-> UserArgs, found |-> <<>>],
     [greppable |-> FALSE, scripts |-> "Default", command |-> <<>>,
      found |-> <<ScriptFile(Some(CallFormat))>>],
     [greppable |-> FALSE, scripts |-> "Default", command |-> UserArgs,
      found |-> <<ScriptFile(Some(CallFormat)), ScriptFile(Some(CallFormat))>>],
     [greppable |-> FALSE, scripts |-> "Custom", command |-> UserArgs,
      found |-> <<ScriptFile(None)>>]}

Init ==
    /\ overflow_checks \in BOOLEAN
    /\ \E e \in Environments :
          /\ nofile = [soft |-> e.soft, hard |-> e.hard]
          /\ os_permits = e.permits
    /\ \E b \in MainBatchSizes, u \in RequestedUlimits, c \in RunConfigs :
          \* the script loop reads no batch size: it is run with one of them
          /\ (c.greppable \/ c.scripts = "None" \/ b \in ScriptRunBatchSizes)
          /\ opts = OptsOf(b, u, c.greppable, c.scripts, c.command)
          /\ scripts_to_run = c.found
    /\ ulimit = U64(0)
    /\ \E n \in 0..MaxIps : ips = [i \in 1..n |-> i]
    /\ pc = "init_scripts"
    /\ Idle

Next ==
    \/ init_scripts_ok
    \/ init_scripts_err
    \/ no_ips_resolved
    \/ ips_resolved
    \/ call_adjust_ulimit_size
    \/ call_infer_batch_size
    \/ scanner_new
    \/ scanner_run
    \/ group_ports
    \/ diagnose_ip
    \/ print_result
    \/ start_script
    \/ script_returns
    \/ finish

Spec == Init /\ [][Next]_vars

-----------------------------------------------------------------------------
(* Properties                                                              *)

\* the value of a u64 that fits two limbs
Val(a) == a[1] + a[2] * LimbBase
Small(a) == a[3] = 0 /\ a[4] = 0 /\ a[2] < 2^14

InferCalled == pc # "infer_batch_size" /\ pc # "init_scripts" /\ pc # "parse_addresses"
                  /\ pc # "adjust_ulimit_size" /\ pc # "exit"
InferReturned == InferCalled /\ pc # "panic"

Said(text) == {i \in 1..Len(out) : out[i].text = text}

HintText == "file limit higher than batch size"
NoOpenText == "looks like i didn't find any open ports"

\* C1: with the soft limit L below the requested batch size B, infer_batch_size
\* returns L / 2 (rounded down) when L < 3000, 3000 when L > 8000, and L - 100
\* when 3000 <= L <= 8000.
C1_LoweredBatch ==
    (InferCalled /\ Small(ulimit) /\ Val(ulimit) < opts.batch_size) =>
        /\ InferReturned
        /\ batch_size = IF Val(ulimit) < AVERAGE_BATCH_SIZE THEN Val(ulimit) \div 2
                        ELSE IF Val(ulimit) > DEFAULT_FILE_DESCRIPTORS_LIMIT
                        THEN AVERAGE_BATCH_SIZE
                        ELSE Val(ulimit) - HEADROOM

C1_Witness ==
    /\ InferReturned
    /\ opts.batch_size = U16Max
    /\ ulimit = U64(AVERAGE_BATCH_SIZE)
    /\ batch_size = AVERAGE_BATCH_SIZE - HEADROOM

\* C2: every call of infer_batch_size returns a value <= B, and returns exactly
\* B whenever L >= B, whether or not a ulimit was supplied.
C2_OnlyLowers ==
    InferCalled =>
        /\ InferReturned
        /\ batch_size <= opts.batch_size
        /\ (U64Le(U64(opts.batch_size), ulimit) => batch_size = opts.batch_size)

\* C3: the batch size handed to Scanner::new is strictly less than the soft
\* limit L returned by adjust_ulimit_size.
C3_BelowLimit ==
    scanner # None => U64Lt(U64(scanner[1]), ulimit)

\* C4: when the requested batch size is >= 1, the batch size handed to
\* Scanner::new is >= 1.
C4_AtLeastOne ==
    (scanner # None /\ opts.batch_size >= 1) => scanner[1] >= 1

\* the step of adjust_ulimit_size: with a requested U that the kernel accepts sets soft
\* and hard to U, reports it and returns U; with a U the kernel refuses it
\* reports the failure, leaves the limits alone and returns the soft limit in
\* force before the call, and main goes on; with no U it changes and prints
\* nothing and returns the current soft limit.
C5_Step ==
    pc = "adjust_ulimit_size" =>
        /\ pc' = "infer_batch_size"
        /\ exit_code' = -1
        /\ opts.ulimit = None =>
              /\ nofile' = nofile
              /\ ulimit' = nofile.soft
              /\ out' = out
        /\ (opts.ulimit # None /\ (os_permits \/ U64Le(opts.ulimit[1], nofile.hard))) =>
              /\ nofile' = [soft |-> opts.ulimit[1], hard |-> opts.ulimit[1]]
              /\ ulimit' = opts.ulimit[1]
              /\ out' = Append(out, Msg("stdout", "automatically increasing ulimit value",
                                        0, opts.ulimit[1], <<>>))
        /\ (opts.ulimit # None /\ ~(os_permits \/ U64Le(opts.ulimit[1], nofile.hard))) =>
              /\ nofile' = nofile
              /\ ulimit' = nofile.soft
              /\ out' = Append(out, Line("stderr", "failed to set ulimit value"))

\* C5: every step that calls adjust_ulimit_size behaves as stated above.
C5_AdjustUlimit == [][C5_Step]_vars

C5_Witness ==
    /\ pc = "infer_batch_size"
    /\ opts.ulimit # None
    /\ Said("failed to set ulimit value") # {}
    /\ ulimit = nofile.soft
    /\ ulimit # opts.ulimit[1]

Reporting == pc \in {"scripts", "script_loop", "script_running"}
ScanDone == pc = "group" \/ pc = "diagnose" \/ Reporting \/ pc = "done"
Grouped == pc = "diagnose" \/ Reporting \/ pc = "done"

\* the ports of `ip` in the order scanner.run() returned them
ReturnedPorts(ip) ==
    LET mine == SelectSeq(scan_result, LAMBDA e : e[1] = ip)
    IN  [i \in 1..Len(mine) |-> mine[i][2]]

OpenIps == {scan_result[i][1] : i \in 1..Len(scan_result)}
OpenPorts(ip) == {scan_result[i][2] : i \in {j \in 1..Len(scan_result) : scan_result[j][1] = ip}}

Ascending(list) == \A i, j \in 1..Len(list) : i < j => list[i] < list[j]
Range(list) == {list[i] : i \in 1..Len(list)}

\* the port lists main printed as result lines or handed to Script::build
Reported ==
    {[ip |-> out[i].ip, ports |-> out[i].ports] : i \in Said("result")}
        \cup {[ip |-> script_calls[i].ip, ports |-> script_calls[i].ports] :
                 i \in 1..Len(script_calls)}

\* C6 as stated: whatever order the scanner returns the open sockets in, the
\* per-IP port list main builds, prints and passes to scripts holds exactly the
\* open ports of that IP in ascending order.
C6_SortedPorts ==
    Grouped =>
        /\ DOMAIN ports_per_ip = OpenIps
        /\ \A ip \in OpenIps :
              Range(ports_per_ip[ip]) = OpenPorts(ip) /\ Ascending(ports_per_ip[ip])
        /\ \A r \in Reported : Range(r.ports) = OpenPorts(r.ip) /\ Ascending(r.ports)

\* C6 amended: the per-IP port list main builds, prints and passes to scripts
\* holds exactly the open ports of that IP, one entry per socket the scanner
\* returned, in the order the scanner returned them.
C6_PortsInScanOrder ==
    Grouped =>
        /\ DOMAIN ports_per_ip = OpenIps
        /\ \A ip \in OpenIps : ports_per_ip[ip] = ReturnedPorts(ip)
        /\ \A r \in Reported : r.ip \in OpenIps /\ r.ports = ReturnedPorts(r.ip)
        /\ pc = "done" => {r.ip : r \in Reported} = OpenIps

C6_Witness ==
    /\ pc = "done"
    /\ scan_result = <<<<1, 80>>, <<1, 22>>>>
    /\ \E r \in Reported : r.ip = 1 /\ r.ports = <<80, 22>>

\* C7: the no-open-ports diagnostic is printed only after scanner.run() has
\* returned and before any result line or script; once the loop has passed an
\* IP, the diagnostic for it was printed exactly when the scan result holds no
\* socket of that IP; and from there main runs on to its end with status 0.
Diagnosed(ip) == \E i \in Said(NoOpenText) : out[i].ip = ip

ReportLines ==
    Said("result") \cup Said("running script") \cup Said("script result")
        \cup Said("error running script")

C7_Diagnostic ==
    /\ Said(NoOpenText) # {} => ScanDone /\ Grouped
    /\ \A k \in 1..Len(ips) :
          /\ Diagnosed(ips[k]) => ips[k] \notin OpenIps
          /\ (Reporting \/ pc = "done" \/ (pc = "diagnose" /\ k < diag_i)) =>
                (Diagnosed(ips[k]) <=> ips[k] \notin OpenIps)
    /\ \A i \in Said(NoOpenText) : \A j \in ReportLines : i < j
    /\ (ReportLines # {} \/ script_calls # <<>>) => Reporting \/ pc = "done"
    /\ (pc \in {"group", "diagnose"} \/ Reporting) => exit_code = -1 /\ ENABLED Next
    /\ pc = "done" => exit_code = 0

C7_Witness ==
    /\ pc = "done"
    /\ exit_code = 0
    /\ Len(ips) = 2
    /\ OpenIps = {1}
    /\ Diagnosed(2)
    /\ ~Diagnosed(1)
    /\ ReportLines # {}

\* C8: the hint is printed only when no ulimit was supplied and L is higher
\* than B, and the batch size it suggests (L - 100) is strictly greater than B.
C8_Hint ==
    \A i \in Said(HintText) :
        /\ opts.ulimit = None
        /\ U64Lt(U64(opts.batch_size), ulimit)
        /\ U64Lt(U64(opts.batch_size), out[i].num)

\* C9: infer_batch_size evaluates `ulimit + 2`, `ulimit - 100` and the
\* conversion to u16 without overflow, underflow or failure, and never panics.
C9_NoOverflow == faults = {} /\ pc # "panic"

\* C10: the batch size named in the no-open-ports diagnostic is the batch size
\* the scanner was built with.
C10_ReportedBatch ==
    \A i \in Said(NoOpenText) : scanner # None /\ out[i].num = U64(scanner[1])

====
